---- MODULE Spec2Model ----
(***************************************************************************)
(* Point-of-sale checkout of the pharmacy application: the POS component   *)
(* (cart, payment modal, handlePayment) of every open session, and the     *)
(* backing store (products, sales, sale_items, profiles with their         *)
(* row-level security policies) the sessions share.                        *)
(*                                                                         *)
(* Money is kept in minor units (1/100 KES), the scale of numeric(10,2).   *)
(* Every catalogue price is a multiple of 25 minor units, so the 16% VAT   *)
(* of any subtotal is a whole number of minor units.                       *)
(***************************************************************************)
EXTENDS Integers, Sequences, FiniteSets

(***************************************************************************)
(* Bounds of the model.                                                    *)
(***************************************************************************)
\* largest stock level a product starts with
MaxStock == 2
\* number of checkouts a session starts (handlePayment getting past its guards)
MaxAttempts == 1
\* calendar days the Reports screen ranges over: day 0 .. day MaxDay
MaxDay == 3
\* most sales the Reports screen has loaded
MaxSales == 3

(***************************************************************************)
(* Fixed data.                                                             *)
(***************************************************************************)
Sessions == {"s1", "s2"}
Products == {"p1", "p2"}
Users == {"admin", "tech", "cash", "off", "techoff"}
NoUser == "nobody"

\* the profiles rows the store starts with: role and is_active of every
\* principal
Profiles ==
  [u \in Users |->
     CASE u = "admin" -> [role |-> "super_admin", is_active |-> TRUE]
       [] u = "tech"  -> [role |-> "pharmtech",   is_active |-> TRUE]
       [] u = "cash"  -> [role |-> "cashier",     is_active |-> TRUE]
       [] u = "off"   -> [role |-> "cashier",     is_active |-> FALSE]
       [] u = "techoff" -> [role |-> "pharmtech", is_active |-> FALSE]]

\* selling_price of the catalogue rows, in minor units
SellingPrice(p) == IF p = "p1" THEN 15000 ELSE 12000
ProductName(p) == IF p = "p1" THEN "Panadol Extra" ELSE "Aspirin 100mg"

PaymentMethods == {"cash", "mpesa", "card", "insurance"}

\* the amounts typed into "Cash Received"
CashInputs == {0, 20000}

TaxRatePercent == 16

VARIABLES
  stock,        \* store: products.stock_level
  sales,        \* store: rows of sales, in insertion order (id = position)
  saleItems,    \* store: rows of sale_items, in insertion order
  now,          \* the last value Date.now() returned
  attempts,     \* session: checkouts started so far
  user,         \* session: useAuth().user
  products,     \* session: catalogue snapshot, product id -> stockLevel
  cartItems,    \* session: the cart
  selectedPaymentMethod,
  cashReceived,
  showPayment,
  isProcessing,
  isLoading,
  lastSale,
  pc,           \* session: where handlePayment is suspended
  att,          \* session: what the running handlePayment closed over
  log,          \* session: store calls of the current or last attempt
  outcome,      \* session: how the last attempt ended
  fetchedSales, \* Reports: sales, the rows fetchSales loaded
  dateRange,    \* Reports: dateRange
  filteredSales, \* Reports: filteredSales
  profiles,     \* store: rows of profiles (role, is_active)
  users         \* UserManagement: users, the rows fetchUsers loaded (isActive)

storeVars == <<stock, sales, saleItems>>
uiVars == <<products, cartItems, selectedPaymentMethod, cashReceived,
            showPayment, isProcessing, isLoading, lastSale>>
reportVars == <<fetchedSales, dateRange, filteredSales>>
adminVars == <<profiles, users>>
vars == <<stock, sales, saleItems, now, attempts, user, products, cartItems,
          selectedPaymentMethod, cashReceived, showPayment, isProcessing,
          isLoading, lastSale, pc, att, log, outcome,
          fetchedSales, dateRange, filteredSales, profiles, users>>

(***************************************************************************)
(* Helpers on sequences.                                                   *)
(***************************************************************************)
RECURSIVE SumTotals(_)
SumTotals(items) ==
  IF items = <<>> THEN 0 ELSE Head(items).total + SumTotals(Tail(items))

Range(seq) == {seq[i] : i \in 1..Len(seq)}

(***************************************************************************)
(* The store: row-level security policies and constraints.                 *)
(***************************************************************************)
\* EXISTS (SELECT 1 FROM profiles WHERE id = auth.uid() AND is_active = true)
IsActive(u) == u \in Users /\ profiles[u].is_active

\* the products policies without their is_active test
CanWriteProductsByRole(u) ==
  /\ u \in Users
  /\ profiles[u].role \in {"super_admin", "pharmtech"}

\* the profile test shared by the products INSERT, UPDATE and DELETE policies
CanWriteProducts(u) ==
  /\ u \in Users
  /\ profiles[u].role \in {"super_admin", "pharmtech"}
  /\ profiles[u].is_active

\* policy "Super admins and pharmtech can insert products"
CanInsertProducts(u) == CanWriteProducts(u)

\* policy "Super admins and pharmtech can delete products"
CanDeleteProducts(u) == CanWriteProducts(u)

\* policy "Super admins and pharmtech can update products"
CanUpdateProducts(u) == CanWriteProducts(u)

\* a products row with this id exists
ProductExists(p) == p \in DOMAIN stock

\* sale_items.product_id REFERENCES products(id): some line item names p
Referenced(p) == \E i \in 1..Len(saleItems) : saleItems[i].product_id = p

\* the insert policy of sales without the test of is_active
CanInsertSaleOwnRow(u, row) == row.staff_id = u

\* policy "All active users can insert sales"
CanInsertSale(u, row) == IsActive(u) /\ row.staff_id = u

\* the column without its UNIQUE constraint
ReceiptUnconstrained(row) == TRUE

\* receipt_number text UNIQUE NOT NULL
ReceiptIsNew(row) == \A i \in 1..Len(sales) : sales[i].receipt_number # row.receipt_number

\* policy "All active users can insert sale items"
CanInsertSaleItems(u, saleId) ==
  \E i \in 1..Len(sales) :
    sales[i].id = saleId /\ sales[i].staff_id = u /\ IsActive(u)

\* policy "All active users can read products"
CanReadProducts(u) == IsActive(u)

\* the query without its stock filter
InStockUnfiltered(level) == TRUE

\* .gt('stock_level', 0)
InStock(level) == level > 0

\* what fetchProducts puts in the snapshot when the query succeeds
FetchedProducts(u) ==
  IF CanReadProducts(u)
    THEN [p \in {q \in DOMAIN stock : InStock(stock[q])} |-> stock[p]]
    ELSE [p \in {} |-> 0]

(***************************************************************************)
(* The cart (pure parts of the POS component).                             *)
(***************************************************************************)
\* the lookup of the existing line never finding one
InCartNever(cart, productId) == FALSE

InCart(cart, productId) == \E i \in 1..Len(cart) : cart[i].productId = productId

\* cartItems.find(item => item.productId === productId)
FindItem(cart, productId) ==
  cart[CHOOSE i \in 1..Len(cart) :
         /\ cart[i].productId = productId
         /\ \A j \in 1..(i - 1) : cart[j].productId # productId]

\* the map that sets the quantity and keeps the old line total
SetQuantityStaleTotal(cart, productId, q) ==
  [i \in 1..Len(cart) |->
     IF cart[i].productId = productId
       THEN [cart[i] EXCEPT !.quantity = q]
       ELSE cart[i]]

\* cartItems.map(item => item.productId === productId ? {...item, quantity, total} : item)
SetQuantity(cart, productId, q) ==
  [i \in 1..Len(cart) |->
     IF cart[i].productId = productId
       THEN [cart[i] EXCEPT !.quantity = q, !.total = q * cart[i].unitPrice]
       ELSE cart[i]]

\* addToCart with the ceiling test off by one (<= for <)
addToCartOffByOne(cart, snapshot, productId) ==
  IF InCart(cart, productId)
    THEN IF FindItem(cart, productId).quantity <= snapshot[productId]
           THEN SetQuantity(cart, productId, FindItem(cart, productId).quantity + 1)
           ELSE cart
    ELSE Append(cart, [productId   |-> productId,
                       productName |-> ProductName(productId),
                       quantity    |-> 1,
                       unitPrice   |-> SellingPrice(productId),
                       total       |-> SellingPrice(productId)])

\* addToCart(product), product being the snapshot's row for productId
addToCart(cart, snapshot, productId) ==
  IF InCart(cart, productId)
    THEN IF FindItem(cart, productId).quantity < snapshot[productId]
           THEN SetQuantity(cart, productId, FindItem(cart, productId).quantity + 1)
           ELSE cart
    ELSE Append(cart, [productId   |-> productId,
                       productName |-> ProductName(productId),
                       quantity    |-> 1,
                       unitPrice   |-> SellingPrice(productId),
                       total       |-> SellingPrice(productId)])

\* removeFromCart emptying the cart once the product is found in it
removeFromCartClearing(cart, productId) ==
  IF InCart(cart, productId) THEN <<>> ELSE cart

removeFromCart(cart, productId) ==
  LET Keep(item) == item.productId # productId IN SelectSeq(cart, Keep)

\* updateQuantity with the ceiling test off by one (newQuantity - 1 <= stockLevel)
updateQuantityOffByOne(cart, snapshot, productId, newQuantity) ==
  IF newQuantity = 0
    THEN removeFromCart(cart, productId)
    ELSE IF productId \in DOMAIN snapshot /\ newQuantity - 1 <= snapshot[productId]
           THEN SetQuantity(cart, productId, newQuantity)
           ELSE cart

\* updateQuantity without the branch that removes the line at quantity 0
updateQuantityKeepsZero(cart, snapshot, productId, newQuantity) ==
  IF productId \in DOMAIN snapshot /\ newQuantity <= snapshot[productId]
    THEN SetQuantity(cart, productId, newQuantity)
    ELSE cart

updateQuantity(cart, snapshot, productId, newQuantity) ==
  IF newQuantity = 0
    THEN removeFromCart(cart, productId)
    ELSE IF productId \in DOMAIN snapshot /\ newQuantity <= snapshot[productId]
           THEN SetQuantity(cart, productId, newQuantity)
           ELSE cart

getCartTotal(cart) ==
  LET subtotal == SumTotals(cart)
      tax == (subtotal * TaxRatePercent) \div 100
  IN [subtotal |-> subtotal, tax |-> tax, total |-> subtotal + tax]

(***************************************************************************)
(* Values of the session state.                                            *)
(***************************************************************************)
NoProducts == [p \in {} |-> 0]

\* lastSale = null
NoSale == [id |-> 0, items |-> <<>>, subtotal |-> 0, tax |-> 0, total |-> 0,
           paymentMethod |-> "", staffId |-> "", receiptNumber |-> 0]

\* no handlePayment is suspended
NoAttempt == [cart |-> <<>>, products |-> NoProducts, subtotal |-> 0, tax |-> 0,
              total |-> 0, method |-> "", receipt |-> 0, saleId |-> 0, i |-> 0,
              stock0 |-> [p \in Products |-> 0]]

\* one store call of an attempt: ok = no error returned, rows = rows written
Call(op, ok, rows, product, value) ==
  [op |-> op, ok |-> ok, rows |-> rows, product |-> product, value |-> value]

\* the state of the store and of every counter once POS has mounted and its
\* first fetchProducts has returned, for the given principals and stock levels
PosMounted(principals, levels) ==
  /\ stock = levels
  /\ sales = <<>>
  /\ saleItems = <<>>
  /\ profiles = Profiles
  /\ now = 0
  /\ attempts = [s \in Sessions |-> 0]
  /\ user = principals
  /\ products = [s \in Sessions |-> FetchedProducts(user[s])]
  /\ cartItems = [s \in Sessions |-> <<>>]
  /\ selectedPaymentMethod = [s \in Sessions |-> "cash"]
  /\ cashReceived = [s \in Sessions |-> 0]
  /\ showPayment = [s \in Sessions |-> FALSE]
  /\ isProcessing = [s \in Sessions |-> FALSE]
  /\ isLoading = [s \in Sessions |-> FALSE]
  /\ lastSale = [s \in Sessions |-> NoSale]
  /\ pc = [s \in Sessions |-> "idle"]
  /\ att = [s \in Sessions |-> NoAttempt]
  /\ log = [s \in Sessions |-> <<>>]
  /\ outcome = [s \in Sessions |-> "none"]

\* the Reports screen is not open
ReportsClosed ==
  /\ fetchedSales = <<>>
  /\ dateRange = [startDate |-> 0, endDate |-> 0]
  /\ filteredSales = <<>>

\* the User Management screen is not open
UserManagementClosed == users = [u \in {} |-> FALSE]

Mounted(principals, levels) ==
  PosMounted(principals, levels) /\ ReportsClosed /\ UserManagementClosed

\* one counter in use, run by a super admin; p2 may be out of stock
Init ==
  \E level2 \in 0..1 :
    Mounted([s \in Sessions |-> IF s = "s1" THEN "admin" ELSE "tech"],
            [p \in Products |-> IF p = "p1" THEN MaxStock ELSE level2])

(***************************************************************************)
(* Operator actions on the POS screen.  While isLoading the component      *)
(* renders the spinner only, so nothing can be pressed.  The buttons under *)
(* a modal stay reachable from the keyboard, so a modal disables nothing.  *)
(* An operator leaves the counter once the last checkout of the session    *)
(* has ended and its receipt, if there is one, has been dismissed.         *)
(***************************************************************************)
\* the checkouts the operator of a counter starts before leaving it: the
\* second counter stays open for one more, so that a failed checkout can be
\* tried again there
AttemptsAt(s) == IF s = "s1" THEN MaxAttempts ELSE MaxAttempts + 1

AtCounter(s) == attempts[s] < AttemptsAt(s) \/ pc[s] # "idle"

Interactive(s) == ~isLoading[s] /\ AtCounter(s)

\* a product tile is clicked
AddToCart(s, p) ==
  /\ UNCHANGED <<reportVars, adminVars>>
  /\ Interactive(s)
  /\ p \in DOMAIN products[s]
  /\ cartItems' = [cartItems EXCEPT ![s] = addToCart(cartItems[s], products[s], p)]
  /\ UNCHANGED <<stock, sales, saleItems, now, attempts, user, products,
                 selectedPaymentMethod, cashReceived, showPayment, isProcessing,
                 isLoading, lastSale, pc, att, log, outcome>>

\* the minus (d = -1) or plus (d = 1) button of cart line i
UpdateQuantity(s, i, d) ==
  /\ UNCHANGED <<reportVars, adminVars>>
  /\ Interactive(s)
  /\ i \in 1..Len(cartItems[s])
  /\ cartItems' = [cartItems EXCEPT ![s] =
        updateQuantity(cartItems[s], products[s], cartItems[s][i].productId,
                       cartItems[s][i].quantity + d)]
  /\ UNCHANGED <<stock, sales, saleItems, now, attempts, user, products,
                 selectedPaymentMethod, cashReceived, showPayment, isProcessing,
                 isLoading, lastSale, pc, att, log, outcome>>

\* the bin button of cart line i
RemoveFromCart(s, i) ==
  /\ UNCHANGED <<reportVars, adminVars>>
  /\ Interactive(s)
  /\ i \in 1..Len(cartItems[s])
  /\ cartItems' = [cartItems EXCEPT ![s] =
        removeFromCart(cartItems[s], cartItems[s][i].productId)]
  /\ UNCHANGED <<stock, sales, saleItems, now, attempts, user, products,
                 selectedPaymentMethod, cashReceived, showPayment, isProcessing,
                 isLoading, lastSale, pc, att, log, outcome>>

\* the payment section is rendered only when cartItems.length > 0
PaymentSectionShown(s) == Len(cartItems[s]) > 0

SelectPaymentMethod(s, m) ==
  /\ UNCHANGED <<reportVars, adminVars>>
  /\ Interactive(s)
  /\ PaymentSectionShown(s)
  /\ selectedPaymentMethod' = [selectedPaymentMethod EXCEPT ![s] = m]
  /\ UNCHANGED <<stock, sales, saleItems, now, attempts, user, products, cartItems,
                 cashReceived, showPayment, isProcessing, isLoading, lastSale,
                 pc, att, log, outcome>>

\* "Process Payment"
OpenPayment(s) ==
  /\ UNCHANGED <<reportVars, adminVars>>
  /\ Interactive(s)
  /\ PaymentSectionShown(s)
  /\ showPayment' = [showPayment EXCEPT ![s] = TRUE]
  /\ UNCHANGED <<stock, sales, saleItems, now, attempts, user, products, cartItems,
                 selectedPaymentMethod, cashReceived, isProcessing, isLoading,
                 lastSale, pc, att, log, outcome>>

\* "Cancel" in the payment modal
CancelPayment(s) ==
  /\ UNCHANGED <<reportVars, adminVars>>
  /\ Interactive(s)
  /\ showPayment[s]
  /\ showPayment' = [showPayment EXCEPT ![s] = FALSE]
  /\ UNCHANGED <<stock, sales, saleItems, now, attempts, user, products, cartItems,
                 selectedPaymentMethod, cashReceived, isProcessing, isLoading,
                 lastSale, pc, att, log, outcome>>

\* the "Cash Received" input of the payment modal
SetCashReceived(s, v) ==
  /\ UNCHANGED <<reportVars, adminVars>>
  /\ Interactive(s)
  /\ showPayment[s]
  /\ selectedPaymentMethod[s] = "cash"
  /\ cashReceived' = [cashReceived EXCEPT ![s] = v]
  /\ UNCHANGED <<stock, sales, saleItems, now, attempts, user, products, cartItems,
                 selectedPaymentMethod, showPayment, isProcessing, isLoading,
                 lastSale, pc, att, log, outcome>>

\* "Continue" in the receipt modal
ContinueAfterReceipt(s) ==
  /\ UNCHANGED <<reportVars, adminVars>>
  /\ ~isLoading[s]
  /\ lastSale[s] # NoSale
  /\ lastSale' = [lastSale EXCEPT ![s] = NoSale]
  /\ UNCHANGED <<stock, sales, saleItems, now, attempts, user, products, cartItems,
                 selectedPaymentMethod, cashReceived, showPayment, isProcessing,
                 isLoading, pc, att, log, outcome>>

(***************************************************************************)
(* handlePayment: one action per stretch of code between two awaits.  A    *)
(* store call and the resumption of the handler on its response are one    *)
(* step; a call may also fail for lack of connectivity (net = FALSE).      *)
(***************************************************************************)
\* the button without the cash test in its disabled attribute
CompleteSaleDisabledProcessingOnly(s) == isProcessing[s]

\* the button without isProcessing in its disabled attribute
CompleteSaleDisabledCashOnly(s) ==
  /\ selectedPaymentMethod[s] = "cash"
  /\ cashReceived[s] < getCartTotal(cartItems[s]).total

\* disabled={isProcessing || (selectedPaymentMethod === 'cash' && cashReceived < total)}
CompleteSaleDisabled(s) ==
  \/ isProcessing[s]
  \/ /\ selectedPaymentMethod[s] = "cash"
     /\ cashReceived[s] < getCartTotal(cartItems[s]).total

\* the guards without the test of the cart
ReturnsEarlyUserOnly(s) == user[s] = NoUser

\* the guards that return before anything is done
ReturnsEarly(s) == Len(cartItems[s]) = 0 \/ user[s] = NoUser

\* what the handler closes over when it is invoked, with the receipt number
Closure(s, t) ==
  [cart     |-> cartItems[s],
   products |-> products[s],
   subtotal |-> getCartTotal(cartItems[s]).subtotal,
   tax      |-> getCartTotal(cartItems[s]).tax,
   total    |-> getCartTotal(cartItems[s]).total,
   method   |-> selectedPaymentMethod[s],
   receipt  |-> t,
   saleId   |-> 0,
   i        |-> 0,
   stock0   |-> stock]

\* saleData, with the id the store generates
SaleRow(s, id) ==
  [id                   |-> id,
   receipt_number       |-> att[s].receipt,
   subtotal             |-> att[s].subtotal,
   tax                  |-> att[s].tax,
   total                |-> att[s].total,
   payment_method       |-> att[s].method,
   mpesa_transaction_id |-> IF att[s].method = "mpesa" THEN att[s].receipt ELSE 0,
   staff_id             |-> user[s]]

\* saleItemsData losing the last cart line
SaleItemRowsShort(cart, saleId) ==
  [i \in 1..(Len(cart) - 1) |->
     [sale_id      |-> saleId,
      product_id   |-> cart[i].productId,
      product_name |-> cart[i].productName,
      quantity     |-> cart[i].quantity,
      unit_price   |-> cart[i].unitPrice,
      total        |-> cart[i].total]]

\* saleItemsData
SaleItemRows(cart, saleId) ==
  [i \in 1..Len(cart) |->
     [sale_id      |-> saleId,
      product_id   |-> cart[i].productId,
      product_name |-> cart[i].productName,
      quantity     |-> cart[i].quantity,
      unit_price   |-> cart[i].unitPrice,
      total        |-> cart[i].total]]

\* the stock_level computed from the level the store holds at the write
NewStockLevelFromStore(snapshot, item) == stock[item.productId] - item.quantity

\* the stock_level the loop writes for a cart line
NewStockLevel(snapshot, item) == snapshot[item.productId] - item.quantity

\* the sale object built from the state of the latest render instead of the
\* values the handler closed over
ReceiptOfCurrentCart(s) ==
  [id            |-> att[s].saleId,
   items         |-> cartItems[s],
   subtotal      |-> getCartTotal(cartItems[s]).subtotal,
   tax           |-> getCartTotal(cartItems[s]).tax,
   total         |-> getCartTotal(cartItems[s]).total,
   paymentMethod |-> selectedPaymentMethod[s],
   staffId       |-> user[s],
   receiptNumber |-> att[s].receipt]

\* the sale object shown as the receipt
ReceiptOf(s) ==
  [id            |-> att[s].saleId,
   items         |-> att[s].cart,
   subtotal      |-> att[s].subtotal,
   tax           |-> att[s].tax,
   total         |-> att[s].total,
   paymentMethod |-> att[s].method,
   staffId       |-> user[s],
   receiptNumber |-> att[s].receipt]

\* "Complete Sale" is pressed: the code up to the first await
handlePayment(s) ==
  /\ UNCHANGED <<reportVars, adminVars>>
  /\ Interactive(s)
  /\ showPayment[s]
  /\ ~CompleteSaleDisabled(s)
  /\ IF ReturnsEarly(s)
       THEN /\ outcome' = [outcome EXCEPT ![s] = "returned"]
            /\ log' = [log EXCEPT ![s] = <<>>]
            /\ UNCHANGED <<now, attempts, isProcessing, pc, att>>
       ELSE /\ attempts[s] < AttemptsAt(s) \/ pc[s] # "idle"
            /\ attempts' = [attempts EXCEPT ![s] = attempts[s] + 1]
            /\ \E t \in {now, now + 1} \ {0} :
                 /\ now' = t
                 /\ att' = [att EXCEPT ![s] = Closure(s, t)]
            /\ isProcessing' = [isProcessing EXCEPT ![s] = TRUE]
            /\ pc' = [pc EXCEPT ![s] = "sale"]
            /\ log' = [log EXCEPT ![s] = <<>>]
            /\ outcome' = [outcome EXCEPT ![s] = "running"]
  /\ UNCHANGED <<stock, sales, saleItems, user, products, cartItems,
                 selectedPaymentMethod, cashReceived, showPayment, isLoading,
                 lastSale>>

\* return / catch without the finally block: isProcessing is left set
FailedNoFinally(s, call) ==
  /\ pc' = [pc EXCEPT ![s] = "idle"]
  /\ att' = [att EXCEPT ![s] = NoAttempt]
  /\ log' = [log EXCEPT ![s] = Append(log[s], call)]
  /\ outcome' = [outcome EXCEPT ![s] = "failed"]
  /\ UNCHANGED isProcessing

\* return / catch, then finally: the attempt ends without a receipt
Failed(s, call) ==
  /\ isProcessing' = [isProcessing EXCEPT ![s] = FALSE]
  /\ pc' = [pc EXCEPT ![s] = "idle"]
  /\ att' = [att EXCEPT ![s] = NoAttempt]
  /\ log' = [log EXCEPT ![s] = Append(log[s], call)]
  /\ outcome' = [outcome EXCEPT ![s] = "failed"]

\* the saleError branch without its return: the handler goes on to the items
OnSaleErrorNoReturn(s) ==
  /\ pc' = [pc EXCEPT ![s] = "items"]
  /\ log' = [log EXCEPT ![s] = Append(log[s], Call("sale", FALSE, 0, "", 0))]
  /\ UNCHANGED <<att, isProcessing, outcome>>

\* if (saleError) { console.error; alert; return; }
OnSaleError(s) == Failed(s, Call("sale", FALSE, 0, "", 0))

\* whether the store takes the sale row
SaleAccepted(s, net) ==
  /\ net
  /\ CanInsertSale(user[s], SaleRow(s, Len(sales) + 1))
  /\ ReceiptIsNew(SaleRow(s, Len(sales) + 1))

\* supabase.from('sales').insert(saleData).select().single()
SaleInsertReturns(s) ==
  /\ UNCHANGED <<reportVars, adminVars>>
  /\ pc[s] = "sale"
  /\ \E net \in BOOLEAN :
       IF SaleAccepted(s, net)
         THEN /\ sales' = Append(sales, SaleRow(s, Len(sales) + 1))
              /\ att' = [att EXCEPT ![s].saleId = Len(sales) + 1]
              /\ pc' = [pc EXCEPT ![s] = "items"]
              /\ log' = [log EXCEPT ![s] = Append(log[s], Call("sale", TRUE, 1, "", 0))]
              /\ UNCHANGED <<isProcessing, outcome>>
         ELSE /\ OnSaleError(s)
              /\ UNCHANGED sales
  /\ UNCHANGED <<stock, saleItems, now, attempts, user, products, cartItems,
                 selectedPaymentMethod, cashReceived, showPayment, isLoading,
                 lastSale>>

\* the itemsError branch without its return: the handler goes on to the
\* stock updates
OnItemsErrorNoReturn(s) ==
  /\ att' = [att EXCEPT ![s].i = 1]
  /\ pc' = [pc EXCEPT ![s] = "stock"]
  /\ log' = [log EXCEPT ![s] = Append(log[s], Call("items", FALSE, 0, "", 0))]
  /\ UNCHANGED <<isProcessing, outcome>>

\* if (itemsError) { console.error; alert; return; }
OnItemsError(s) == Failed(s, Call("items", FALSE, 0, "", 0))

\* whether the store takes the line items (one statement: all rows or none)
SaleItemsAccepted(s, net) ==
  /\ net
  /\ CanInsertSaleItems(user[s], att[s].saleId)
  /\ \A i \in 1..Len(att[s].cart) : ProductExists(att[s].cart[i].productId)

\* supabase.from('sale_items').insert(saleItemsData)
SaleItemsInsertReturns(s) ==
  /\ UNCHANGED <<reportVars, adminVars>>
  /\ pc[s] = "items"
  /\ \E net \in BOOLEAN :
       IF SaleItemsAccepted(s, net)
         THEN /\ saleItems' = saleItems \o SaleItemRows(att[s].cart, att[s].saleId)
              /\ att' = [att EXCEPT ![s].i = 1]
              /\ pc' = [pc EXCEPT ![s] = "stock"]
              /\ log' = [log EXCEPT ![s] =
                           Append(log[s], Call("items", TRUE, Len(att[s].cart), "", 0))]
              /\ UNCHANGED <<isProcessing, outcome>>
         ELSE /\ OnItemsError(s)
              /\ UNCHANGED saleItems
  /\ UNCHANGED <<stock, sales, now, attempts, user, products, cartItems,
                 selectedPaymentMethod, cashReceived, showPayment, isLoading,
                 lastSale>>

\* after the loop: receipt, cart cleared, modal closed, fetchProducts started
Completed(s) ==
  /\ lastSale' = [lastSale EXCEPT ![s] = ReceiptOf(s)]
  /\ cartItems' = [cartItems EXCEPT ![s] = <<>>]
  /\ showPayment' = [showPayment EXCEPT ![s] = FALSE]
  /\ cashReceived' = [cashReceived EXCEPT ![s] = 0]
  /\ isLoading' = [isLoading EXCEPT ![s] = TRUE]
  /\ pc' = [pc EXCEPT ![s] = "refetch"]
  /\ outcome' = [outcome EXCEPT ![s] = "completed"]
  /\ UNCHANGED <<att, isProcessing>>

\* the loop sending the update of a line again when it returned an error
AfterStockUpdateRetry(s) ==
  IF ~log'[s][Len(log'[s])].ok
    THEN UNCHANGED <<att, lastSale, cartItems, showPayment, cashReceived,
                     isLoading, pc, outcome, isProcessing>>
    ELSE IF att[s].i < Len(att[s].cart)
           THEN /\ att' = [att EXCEPT ![s].i = att[s].i + 1]
                /\ UNCHANGED <<lastSale, cartItems, showPayment, cashReceived,
                               isLoading, pc, outcome, isProcessing>>
           ELSE Completed(s)

\* what the handler does once the update of line att[s].i has returned
AfterStockUpdate(s) ==
  IF att[s].i < Len(att[s].cart)
    THEN /\ att' = [att EXCEPT ![s].i = att[s].i + 1]
         /\ UNCHANGED <<lastSale, cartItems, showPayment, cashReceived, isLoading,
                        pc, outcome, isProcessing>>
    ELSE Completed(s)

\* one turn of: for (const item of cartItems) await supabase.from('products').update(...)
StockUpdateReturns(s) ==
  /\ UNCHANGED <<reportVars, adminVars>>
  /\ pc[s] = "stock"
  /\ LET item == att[s].cart[att[s].i] IN
       IF item.productId \notin DOMAIN att[s].products
         THEN \* products.find(...) is undefined: TypeError, caught by catch
              /\ Failed(s, Call("throw", FALSE, 0, item.productId, 0))
              /\ UNCHANGED <<stock, lastSale, cartItems, showPayment, cashReceived,
                             isLoading>>
         ELSE \E net \in BOOLEAN :
                LET value == NewStockLevel(att[s].products, item)
                    rows == IF /\ net
                               /\ CanUpdateProducts(user[s])
                               /\ ProductExists(item.productId)
                              THEN 1 ELSE 0
                IN /\ stock' = IF rows = 1
                                 THEN [stock EXCEPT ![item.productId] = value]
                                 ELSE stock
                   /\ log' = [log EXCEPT ![s] =
                                Append(log[s], Call("stock", net, rows, item.productId, value))]
                   /\ AfterStockUpdate(s)
  /\ UNCHANGED <<sales, saleItems, now, attempts, user, products,
                 selectedPaymentMethod>>

\* await fetchProducts() returns, then finally { setIsProcessing(false) }
FetchProductsReturns(s) ==
  /\ UNCHANGED <<reportVars, adminVars>>
  /\ pc[s] = "refetch"
  /\ \E net \in BOOLEAN :
       /\ products' = [products EXCEPT ![s] =
                         IF net THEN FetchedProducts(user[s]) ELSE products[s]]
       /\ log' = [log EXCEPT ![s] = Append(log[s], Call("fetch", net, 0, "", 0))]
  /\ isLoading' = [isLoading EXCEPT ![s] = FALSE]
  /\ isProcessing' = [isProcessing EXCEPT ![s] = FALSE]
  /\ pc' = [pc EXCEPT ![s] = "idle"]
  /\ att' = [att EXCEPT ![s] = NoAttempt]
  /\ UNCHANGED <<stock, sales, saleItems, now, attempts, user, cartItems,
                 selectedPaymentMethod, cashReceived, showPayment, lastSale,
                 outcome>>

(***************************************************************************)
(* One counter, its operator free to press anything.                       *)
(***************************************************************************)
OperatorStep(s) ==
  \/ \E p \in Products : AddToCart(s, p)
  \/ \E i \in 1..Cardinality(Products), d \in {-1, 1} : UpdateQuantity(s, i, d)
  \/ \E i \in 1..Cardinality(Products) : RemoveFromCart(s, i)
  \/ \E m \in {"cash", "mpesa"} : SelectPaymentMethod(s, m)
  \/ OpenPayment(s)
  \/ CancelPayment(s)
  \/ \E v \in CashInputs : SetCashReceived(s, v)
  \/ ContinueAfterReceipt(s)

CheckoutStep(s) ==
  \/ handlePayment(s)
  \/ SaleInsertReturns(s)
  \/ SaleItemsInsertReturns(s)
  \/ StockUpdateReturns(s)
  \/ FetchProductsReturns(s)

Next == OperatorStep("s1") \/ CheckoutStep("s1")

Spec == Init /\ [][Next]_vars

(***************************************************************************)
(* Two counters selling the same product at the same time, each operator   *)
(* adding p1 to the cart and taking a card payment, once.                  *)
(***************************************************************************)
RaceOperatorStep(s) ==
  \/ AddToCart(s, "p1")
  \/ SelectPaymentMethod(s, "card")
  \/ OpenPayment(s)

\* the first counter is run by a super admin or a cashier, the second by a
\* pharmacy technician
InitRace ==
  \E u1 \in {"admin", "cash"}, level1 \in 1..MaxStock :
    Mounted([s \in Sessions |-> IF s = "s1" THEN u1 ELSE "tech"],
            [p \in Products |-> IF p = "p1" THEN level1 ELSE 1])

\* each operator serves one customer
RaceCounter(s) == attempts[s] = 0 \/ pc[s] # "idle"

NextRace ==
  \E s \in Sessions :
    \/ RaceCounter(s) /\ (RaceOperatorStep(s) \/ CheckoutStep(s))
    \/ ContinueAfterReceipt(s)

SpecRace == InitRace /\ [][NextRace]_vars

(***************************************************************************)
(* The two counters with every store call returning: a handler that is     *)
(* suspended on an await is resumed once the response is there.            *)
(***************************************************************************)
StoreReturns(s) ==
  \/ SaleInsertReturns(s)
  \/ SaleItemsInsertReturns(s)
  \/ StockUpdateReturns(s)
  \/ FetchProductsReturns(s)

SpecRaceLive ==
  InitRace /\ [][NextRace]_vars /\ \A s \in Sessions : WF_vars(StoreReturns(s))

(***************************************************************************)
(* One counter whose operator presses Complete Sale again after a failed   *)
(* checkout: a pharmacy technician at s2 selling p1 against a card.        *)
(***************************************************************************)
InitRetry ==
  Mounted([s \in Sessions |-> IF s = "s1" THEN "admin" ELSE "tech"],
          [p \in Products |-> IF p = "p1" THEN MaxStock ELSE 1])

RetryOperatorStep(s) ==
  \/ \E p \in Products : AddToCart(s, p)
  \/ SelectPaymentMethod(s, "card")
  \/ OpenPayment(s)
  \/ ContinueAfterReceipt(s)

NextRetry == RetryOperatorStep("s2") \/ CheckoutStep("s2")

SpecRetry == InitRetry /\ [][NextRetry]_vars

(***************************************************************************)
(* The cart functions on their own: addToCart, updateQuantity and          *)
(* removeFromCart called with any product and any quantity, on a snapshot  *)
(* that may lack p2.  log holds the last call.                             *)
(***************************************************************************)
CartCall(s, op, productId, quantity, cart) ==
  /\ UNCHANGED <<reportVars, adminVars>>
  /\ cartItems' = [cartItems EXCEPT ![s] = cart]
  /\ log' = [log EXCEPT ![s] = <<Call(op, TRUE, 0, productId, quantity)>>]
  /\ UNCHANGED <<stock, sales, saleItems, now, attempts, user, products,
                 selectedPaymentMethod, cashReceived, showPayment, isProcessing,
                 isLoading, lastSale, pc, att, outcome>>

CallAddToCart(s, p) ==
  /\ p \in DOMAIN products[s]
  /\ CartCall(s, "addToCart", p, 1, addToCart(cartItems[s], products[s], p))

CallUpdateQuantity(s, p, q) ==
  CartCall(s, "updateQuantity", p, q, updateQuantity(cartItems[s], products[s], p, q))

CallRemoveFromCart(s, p) ==
  CartCall(s, "removeFromCart", p, 0, removeFromCart(cartItems[s], p))

InitCart ==
  \E level1 \in 1..MaxStock, level2 \in 0..MaxStock :
    Mounted([s \in Sessions |-> IF s = "s1" THEN "admin" ELSE "tech"],
            [p \in Products |-> IF p = "p1" THEN level1 ELSE level2])

NextCart ==
  \/ \E p \in Products : CallAddToCart("s1", p)
  \/ \E p \in Products, q \in 0..(MaxStock + 1) : CallUpdateQuantity("s1", p, q)
  \/ \E p \in Products : CallRemoveFromCart("s1", p)

SpecCart == InitCart /\ [][NextCart]_vars

(***************************************************************************)
(* The Inventory screen.  A session on it saves an edited or a new product *)
(* and deletes products; the buttons and the product form are rendered     *)
(* only under canModifyInventory.  log holds the last call of the screen.  *)
(* A cashier sells at the other counter meanwhile.                         *)
(***************************************************************************)
\* editingProduct = null
NoProduct == "none"

\* user?.role === 'super_admin' || user?.role === 'pharmtech'
canModifyInventory(u) ==
  /\ u \in Users
  /\ Profiles[u].role \in {"super_admin", "pharmtech"}

InventoryCall(s, call) ==
  /\ UNCHANGED <<reportVars, adminVars>>
  /\ log' = [log EXCEPT ![s] = <<call>>]
  /\ UNCHANGED <<sales, saleItems, now, attempts, user, products, cartItems,
                 selectedPaymentMethod, cashReceived, showPayment, isProcessing,
                 isLoading, lastSale, pc, att, outcome>>

\* the id the store gives the next products row
NewProductId == CHOOSE p \in Products : ~ProductExists(p)

\* "Save" in the product form, for the product being edited or for a new one
handleSaveProduct(s, editing, stockLevel) ==
  /\ canModifyInventory(user[s])
  /\ \E net \in BOOLEAN :
       IF editing # NoProduct
         THEN LET rows == IF /\ net
                             /\ CanUpdateProducts(user[s])
                             /\ ProductExists(editing)
                            THEN 1 ELSE 0
              IN /\ stock' = IF rows = 1
                               THEN [stock EXCEPT ![editing] = stockLevel]
                               ELSE stock
                 /\ InventoryCall(s, Call("update", net, rows, editing, stockLevel))
         ELSE /\ \E p \in Products : ~ProductExists(p)
              /\ LET ok == net /\ CanInsertProducts(user[s])
                 IN /\ stock' = IF ok
                                  THEN [p \in DOMAIN stock \cup {NewProductId} |->
                                          IF p = NewProductId THEN stockLevel ELSE stock[p]]
                                  ELSE stock
                    /\ InventoryCall(s, Call("insert", ok, IF ok THEN 1 ELSE 0,
                                             NewProductId, stockLevel))

\* the deletion with sale_items.product_id declared ON DELETE CASCADE
handleDeleteCascading(s, productId) ==
  /\ canModifyInventory(user[s])
  /\ \E net \in BOOLEAN :
       LET visible == CanDeleteProducts(user[s]) /\ ProductExists(productId)
           rows == IF net /\ visible THEN 1 ELSE 0
       IN /\ stock' = IF rows = 1
                        THEN [p \in DOMAIN stock \ {productId} |-> stock[p]]
                        ELSE stock
          /\ saleItems' = IF rows = 1
                            THEN SelectSeq(saleItems, LAMBDA r : r.product_id # productId)
                            ELSE saleItems
          /\ log' = [log EXCEPT ![s] = <<Call("delete", net, rows, productId, 0)>>]
          /\ UNCHANGED <<reportVars, adminVars>>
          /\ UNCHANGED <<sales, now, attempts, user, products, cartItems,
                         selectedPaymentMethod, cashReceived, showPayment,
                         isProcessing, isLoading, lastSale, pc, att, outcome>>

\* the bin button of a product row, confirmed
handleDelete(s, productId) ==
  /\ canModifyInventory(user[s])
  /\ \E net \in BOOLEAN :
       LET visible == CanDeleteProducts(user[s]) /\ ProductExists(productId)
           ok == net /\ ~(visible /\ Referenced(productId))
           rows == IF ok /\ visible THEN 1 ELSE 0
       IN /\ stock' = IF rows = 1
                        THEN [p \in DOMAIN stock \ {productId} |-> stock[p]]
                        ELSE stock
          /\ InventoryCall(s, Call("delete", ok, rows, productId, 0))

\* a cashier at counter s1, anyone on the Inventory screen of s2
InitInventory ==
  \E u2 \in Users :
    Mounted([s \in Sessions |-> IF s = "s1" THEN "cash" ELSE u2],
            [p \in Products |-> 1])

NextInventory ==
  \/ RaceCounter("s1") /\ (RaceOperatorStep("s1") \/ CheckoutStep("s1"))
  \/ ContinueAfterReceipt("s1")
  \/ \E editing \in Products \cup {NoProduct}, stockLevel \in 0..MaxStock :
       handleSaveProduct("s2", editing, stockLevel)
  \/ \E p \in Products : handleDelete("s2", p)

SpecInventory == InitInventory /\ [][NextInventory]_vars

(***************************************************************************)
(* The User Management screen, rendered for a super admin only.  The       *)
(* session on it switches principals between active and inactive while a  *)
(* counter sells.  log holds the last call of the screen.                  *)
(***************************************************************************)
\* "Users can update own profile" or "Super admins can update all profiles"
CanUpdateProfiles(u, id) ==
  \/ u = id
  \/ /\ u \in Users
     /\ profiles[u].role = "super_admin"
     /\ profiles[u].is_active

\* currentUser?.role !== 'super_admin' renders "Access Denied"
UserManagementShown(u) == u \in Users /\ Profiles[u].role = "super_admin"

\* the status badge of a row of the users table is clicked
toggleUserStatus(s, userId) ==
  /\ UserManagementShown(user[s])
  /\ userId \in DOMAIN users
  /\ \E net \in BOOLEAN :
       LET value == ~users[userId]
           rows == IF net /\ CanUpdateProfiles(user[s], userId) THEN 1 ELSE 0
       IN /\ profiles' = IF rows = 1
                           THEN [profiles EXCEPT ![userId].is_active = value]
                           ELSE profiles
          /\ users' = IF net THEN [users EXCEPT ![userId] = value] ELSE users
          /\ log' = [log EXCEPT ![s] = <<Call("toggle", net, rows, userId, 0)>>]
  /\ UNCHANGED reportVars
  /\ UNCHANGED <<stock, sales, saleItems, now, attempts, user, products, cartItems,
                 selectedPaymentMethod, cashReceived, showPayment, isProcessing,
                 isLoading, lastSale, pc, att, outcome>>

\* fetchUsers has returned the rows of profiles to the super admin
UserManagementMounted == users = [u \in Users |-> profiles[u].is_active]

\* the principals whose status the super admin switches
Toggled == {"cash", "tech"}

\* a cashier or a pharmacy technician at counter s1, a super admin on the
\* User Management screen of s2
InitStaff ==
  \E u1 \in Toggled :
    /\ PosMounted([s \in Sessions |-> IF s = "s1" THEN u1 ELSE "admin"],
                  [p \in Products |-> 1])
    /\ ReportsClosed
    /\ UserManagementMounted

NextStaff ==
  \/ RaceCounter("s1") /\ (RaceOperatorStep("s1") \/ CheckoutStep("s1"))
  \/ ContinueAfterReceipt("s1")
  \/ \E u \in Toggled : toggleUserStatus("s2", u)

SpecStaff == InitStaff /\ [][NextStaff]_vars

(***************************************************************************)
(* The Reports screen.  A timestamp is the number of its calendar day in   *)
(* local time, counted from Tuesday 30 December 2025; the time zone is not *)
(* west of UTC, so that new Date('YYYY-MM-DD') falls on that local day.    *)
(* A string is the sequence of its character codes.                        *)
(***************************************************************************)
Days == 0..MaxDay

\* year, month and day of the month of a day number
CivilDate(day) ==
  IF day <= 1 THEN [year |-> 2025, month |-> 12, day |-> 30 + day]
              ELSE [year |-> 2026, month |-> 1, day |-> day - 1]

\* 0 = Sunday; day 0 is a Tuesday
Weekday(day) == (2 + day) % 7

\* "Sun", "Mon", "Tue", "Wed", "Thu", "Fri", "Sat"
WeekdayName(w) ==
  CASE w = 0 -> <<83, 117, 110>>
    [] w = 1 -> <<77, 111, 110>>
    [] w = 2 -> <<84, 117, 101>>
    [] w = 3 -> <<87, 101, 100>>
    [] w = 4 -> <<84, 104, 117>>
    [] w = 5 -> <<70, 114, 105>>
    [] w = 6 -> <<83, 97, 116>>

\* "Jan", "Dec"
MonthName(m) == IF m = 1 THEN <<74, 97, 110>> ELSE <<68, 101, 99>>

Digit(d) == 48 + d
TwoDigits(n) == <<Digit(n \div 10), Digit(n % 10)>>
FourDigits(n) ==
  <<Digit(n \div 1000), Digit((n \div 100) % 10), Digit((n \div 10) % 10), Digit(n % 10)>>

\* Date.prototype.toDateString(): "Tue Dec 30 2025"
toDateString(day) ==
  WeekdayName(Weekday(day)) \o <<32>> \o MonthName(CivilDate(day).month) \o <<32>>
    \o TwoDigits(CivilDate(day).day) \o <<32>> \o FourDigits(CivilDate(day).year)

\* new Date(string) of a string toDateString() made
ParseDateString(str) == CHOOSE day \in Days : toDateString(day) = str

\* a <= b on strings: by code units, left to right
RECURSIVE StringLessEq(_, _)
StringLessEq(a, b) ==
  IF a = <<>> THEN TRUE
  ELSE IF b = <<>> THEN FALSE
  ELSE IF Head(a) < Head(b) THEN TRUE
  ELSE IF Head(a) > Head(b) THEN FALSE
  ELSE StringLessEq(Tail(a), Tail(b))

\* saleDate >= startDate && saleDate <= endDate on the toDateString() strings
InRange(saleDay, range) ==
  /\ StringLessEq(toDateString(range.startDate), toDateString(saleDay))
  /\ StringLessEq(toDateString(saleDay), toDateString(range.endDate))

filterSales(list, range) ==
  SelectSeq(list, LAMBDA sale : InRange(sale.created_at, range))

\* sale.items.reduce((sum, item) => sum + item.quantity, 0)
RECURSIVE ItemsCount(_)
ItemsCount(items) ==
  IF items = <<>> THEN 0 ELSE Head(items).quantity + ItemsCount(Tail(items))

\* dailySales.get(date)
HasKey(map, key) == \E i \in 1..Len(map) : map[i].key = key

\* the forEach body with current always the empty entry
DailySetOverwrite(map, sale) ==
  LET key == toDateString(sale.created_at)
      entry == [key |-> key, sales |-> sale.total, transactions |-> 1,
                items |-> ItemsCount(sale.items)]
  IN IF HasKey(map, key)
       THEN [i \in 1..Len(map) |-> IF map[i].key = key THEN entry ELSE map[i]]
       ELSE Append(map, entry)

\* the forEach body: dailySales.set(date, current + this sale), the Map in
\* insertion order
DailySet(map, sale) ==
  LET key == toDateString(sale.created_at)
  IN IF HasKey(map, key)
       THEN [i \in 1..Len(map) |->
               IF map[i].key = key
                 THEN [key |-> key,
                       sales |-> map[i].sales + sale.total,
                       transactions |-> map[i].transactions + 1,
                       items |-> map[i].items + ItemsCount(sale.items)]
                 ELSE map[i]]
       ELSE Append(map, [key |-> key, sales |-> sale.total, transactions |-> 1,
                         items |-> ItemsCount(sale.items)])

\* filteredSales.forEach(...)
RECURSIVE DailySales(_)
DailySales(list) ==
  IF list = <<>> THEN <<>>
  ELSE DailySet(DailySales(SubSeq(list, 1, Len(list) - 1)), list[Len(list)])

\* one row per entry, date: new Date(date).toLocaleDateString()
generateDailyReport(list) ==
  [i \in 1..Len(DailySales(list)) |->
     [date         |-> CivilDate(ParseDateString(DailySales(list)[i].key)),
      sales        |-> DailySales(list)[i].sales,
      transactions |-> DailySales(list)[i].transactions,
      items        |-> DailySales(list)[i].items]]

\* getTotalStats without averageTransaction, a quotient the model leaves out
getTotalStats(list) ==
  [totalSales        |-> SumTotals(list),
   totalTransactions |-> Len(list),
   totalItems        |-> SumTotals([i \in 1..Len(list) |->
                                     [total |-> ItemsCount(list[i].items)]])]

\* the rows fetchSales can load: one unit of p1 or of p2 sold on some day
SaleRows ==
  {[created_at |-> day, total |-> getCartTotal(<<[total |-> SellingPrice(p)]>>).total,
    items |-> <<[quantity |-> 1]>>] : day \in Days, p \in Products}

\* .order('created_at', { ascending: false })
NewestFirst(list) ==
  \A i \in 1..(Len(list) - 1) : list[i].created_at >= list[i + 1].created_at

posVars == <<stock, sales, saleItems, now, attempts, user, products, cartItems,
             selectedPaymentMethod, cashReceived, showPayment, isProcessing,
             isLoading, lastSale, pc, att, log, outcome>>

\* Reports has mounted, fetchSales has returned and the filter effect has
\* run; both dates start at today
InitReports ==
  /\ PosMounted([s \in Sessions |-> IF s = "s1" THEN "admin" ELSE "tech"],
                [p \in Products |-> 1])
  /\ UserManagementClosed
  /\ \E n \in 0..MaxSales : \E list \in [1..n -> SaleRows] :
       /\ NewestFirst(list)
       /\ fetchedSales = list
  /\ \E today \in Days : dateRange = [startDate |-> today, endDate |-> today]
  /\ filteredSales = filterSales(fetchedSales, dateRange)

\* the start date input changes; the effect on [sales, dateRange] filters again
SetStartDate(day) ==
  /\ dateRange' = [dateRange EXCEPT !.startDate = day]
  /\ filteredSales' = filterSales(fetchedSales, dateRange')
  /\ UNCHANGED <<fetchedSales, posVars, adminVars>>

\* the end date input changes
SetEndDate(day) ==
  /\ dateRange' = [dateRange EXCEPT !.endDate = day]
  /\ filteredSales' = filterSales(fetchedSales, dateRange')
  /\ UNCHANGED <<fetchedSales, posVars, adminVars>>

NextReports ==
  \/ \E day \in Days : SetStartDate(day)
  \/ \E day \in Days : SetEndDate(day)

SpecReports == InitReports /\ [][NextReports]_vars

(***************************************************************************)
(* Properties.                                                             *)
(***************************************************************************)
InFlight(s) == pc[s] # "idle"

\* quantity of a product in a cart (0 when it has no line)
RECURSIVE Qty(_, _)
Qty(cart, p) ==
  IF cart = <<>> THEN 0
  ELSE (IF Head(cart).productId = p THEN Head(cart).quantity ELSE 0) + Qty(Tail(cart), p)

ItemsOfSale(id) == SelectSeq(saleItems, LAMBDA r : r.sale_id = id)

\* the calls of a given kind in the log of a session
CallsOf(s, op) == SelectSeq(log[s], LAMBDA c : c.op = op)

\* the cart of a running attempt is one line of one unit of p, started when
\* the store held exactly one unit of p
SellsLastUnit(s, p) ==
  /\ Len(att[s].cart) = 1
  /\ att[s].cart[1].productId = p
  /\ att[s].cart[1].quantity = 1
  /\ att[s].products[p] = 1
  /\ att[s].stock0[p] = 1

\* C1: the stock level of every product is >= 0 in every reachable state of
\* the store, also when two counters run checkouts of the same product at
\* the same time
C1_StockNeverNegative == \A p \in Products : stock[p] >= 0

\* two checkouts of the last unit of p1 have both written their stock level
C1_Witness ==
  \A s \in Sessions :
    /\ pc[s] = "refetch"
    /\ SellsLastUnit(s, "p1")
    /\ \E i \in 1..Len(log[s]) :
         log[s][i].op = "stock" /\ log[s][i].rows = 1 /\ log[s][i].product = "p1"

\* C2: of two concurrent checkouts of the last unit of a product, exactly one
\* reaches Completed (the other fails for insufficient stock) and the stock
\* level ends at 0: so the two never both stand at Completed
C2_OneOfTwoCompletes ==
  \A p \in Products :
    ~(\A s \in Sessions : pc[s] = "refetch" /\ SellsLastUnit(s, p))

\* C3: a checkout that reaches Completed has inserted exactly one sale and
\* exactly one line item per line of the cart handlePayment was invoked with
C3_OneSaleAndNItems ==
  \A s \in Sessions :
    pc[s] = "refetch" =>
      /\ Len(SelectSeq(sales, LAMBDA r : r.id = att[s].saleId)) = 1
      /\ Len(SelectSeq(sales, LAMBDA r : r.receipt_number = att[s].receipt)) = 1
      /\ Len(CallsOf(s, "sale")) = 1
      /\ Len(ItemsOfSale(att[s].saleId)) = Len(att[s].cart)
      /\ Len(att[s].cart) = Cardinality({att[s].cart[i].productId : i \in 1..Len(att[s].cart)})
      /\ \A i \in 1..Len(att[s].cart) :
           Qty(att[s].cart, att[s].cart[i].productId)
             = ItemsOfSale(att[s].saleId)[i].quantity

\* a checkout of a cart of two lines stands at Completed
C3_Witness ==
  /\ pc["s1"] = "refetch"
  /\ Len(att["s1"].cart) = 2
  /\ Len(ItemsOfSale(att["s1"].saleId)) = 2

\* C4: every sale whose checkout has ended has total = subtotal + tax and
\* subtotal = the sum of the totals of its line items
C4_SaleTotalsMatchItems ==
  \A i \in 1..Len(sales) :
    (\A s \in Sessions : InFlight(s) => att[s].saleId # sales[i].id) =>
      /\ sales[i].total = sales[i].subtotal + sales[i].tax
      /\ sales[i].subtotal = SumTotals(ItemsOfSale(sales[i].id))

\* C5: when the store rejects the sale insert the attempt ends there: it is
\* the only call of the attempt, no line item and no stock level is written
C5_SaleRejectedAborts ==
  \A s \in Sessions :
    (\E i \in 1..Len(log[s]) : log[s][i].op = "sale" /\ ~log[s][i].ok) =>
      /\ Len(log[s]) = 1
      /\ ~InFlight(s)
      /\ outcome[s] = "failed"
      /\ ~isProcessing[s]
      /\ attempts = [r \in Sessions |-> IF r = s THEN 1 ELSE 0] =>
            /\ saleItems = <<>>
            /\ sales = <<>>
            /\ stock["p1"] = MaxStock

\* the sale insert of the first checkout was rejected
C5_Witness ==
  /\ attempts["s1"] = 1
  /\ outcome["s1"] = "failed"
  /\ log["s1"] = <<Call("sale", FALSE, 0, "", 0)>>
  /\ Len(cartItems["s1"]) = 2

\* C6: the writes of an attempt go sale, line items, stock updates, and each
\* is issued only after the write before it has succeeded
C6_EachWriteAfterSuccess ==
  \A s \in Sessions :
    LET writes == SelectSeq(log[s], LAMBDA c : c.op \in {"sale", "items", "stock"})
    IN \A i \in 2..Len(writes) :
         /\ writes[i - 1].ok
         /\ writes[i].op = "items" => writes[i - 1].op = "sale"
         /\ writes[i].op = "stock" => writes[i - 1].op \in {"items", "stock"}
         /\ writes[i].op # "sale"

C8_OneAttemptInFlight ==
  /\ [](\A s \in Sessions :
          /\ InFlight(s) <=> isProcessing[s]
          /\ InFlight(s) => CompleteSaleDisabled(s))
  /\ [][\A s \in Sessions :
          InFlight(s) => /\ attempts'[s] = attempts[s]
                         /\ Len(CallsOf(s, "sale"))' <= 1]_vars

\* a checkout is in flight with the modal open and nothing but isProcessing
\* to disable the button
C8_Witness ==
  /\ pc["s1"] = "items"
  /\ showPayment["s1"]
  /\ selectedPaymentMethod["s1"] = "mpesa"
  /\ Len(cartItems["s1"]) > 0

\* C9: no two sales share a receipt number
C9_ReceiptNumbersUnique ==
  \A i, j \in 1..Len(sales) :
    i # j => sales[i].receipt_number # sales[j].receipt_number

\* both counters read the same Date.now(); one sale was stored and the
\* insert of the other was refused
C9_Witness ==
  /\ \A s \in Sessions : attempts[s] = 1
  /\ now = 1
  /\ Len(sales) = 1
  /\ \E s \in Sessions :
       /\ outcome[s] = "failed"
       /\ log[s] = <<Call("sale", FALSE, 0, "", 0)>>
       /\ sales[1].staff_id # user[s]

\* C10: no cart line holds more units of a product than the stock level of
\* that product in the snapshot addToCart is called with, whether the call
\* made the line or added to it; a call at the ceiling leaves the cart as is
C10_CartWithinStock ==
  /\ [](\A s \in Sessions : \A i \in 1..Len(cartItems[s]) :
          /\ cartItems[s][i].productId \in DOMAIN products[s]
          /\ cartItems[s][i].quantity <= products[s][cartItems[s][i].productId])
  /\ [][\A s \in Sessions : \A p \in DOMAIN products[s] :
          Qty(cartItems'[s], p) > Qty(cartItems[s], p) =>
            /\ Qty(cartItems'[s], p) = Qty(cartItems[s], p) + 1
            /\ Qty(cartItems'[s], p) <= products[s][p]]_vars

\* a line was raised to the stock level of its product
C10_Witness ==
  /\ Len(cartItems["s1"]) = 2
  /\ \A i \in 1..2 :
       cartItems["s1"][i].quantity = products["s1"][cartItems["s1"][i].productId]
  /\ Qty(cartItems["s1"], "p1") = MaxStock

\* the sum of quantity x unitPrice over the lines of a cart
RECURSIVE SumOfLines(_)
SumOfLines(cart) ==
  IF cart = <<>> THEN 0
  ELSE Head(cart).quantity * Head(cart).unitPrice + SumOfLines(Tail(cart))

\* C11: updateQuantity(productId, newQty) removes the line of productId when
\* newQty = 0; leaves the cart as it is when newQty > 0 exceeds the stock
\* level of the product or the product is not in the snapshot; and otherwise
\* sets that line's quantity to newQty and its total to newQty x unitPrice,
\* every other line unchanged
C11_UpdateQuantityContract ==
  [][\A p \in Products, q \in 0..(MaxStock + 1) :
       log'["s1"] = <<Call("updateQuantity", TRUE, 0, p, q)>> =>
         LET before == cartItems["s1"]
             after == cartItems'["s1"]
             snapshot == products["s1"]
         IN CASE q = 0 ->
                   /\ ~InCart(after, p)
                   /\ after = SelectSeq(before, LAMBDA l : l.productId # p)
              [] q > 0 /\ (p \notin DOMAIN snapshot \/ q > snapshot[p]) ->
                   after = before
              [] OTHER ->
                   /\ Len(after) = Len(before)
                   /\ \A i \in 1..Len(before) :
                        IF before[i].productId = p
                          THEN /\ after[i].quantity = q
                               /\ after[i].total = q * before[i].unitPrice
                               /\ after[i].unitPrice = before[i].unitPrice
                               /\ after[i].productId = p
                               /\ after[i].productName = before[i].productName
                          ELSE after[i] = before[i]]_vars

\* updateQuantity("p1", 2) has set the second of two lines to 2 units
C11_Witness ==
  /\ log["s1"] = <<Call("updateQuantity", TRUE, 0, "p1", 2)>>
  /\ Len(cartItems["s1"]) = 2
  /\ cartItems["s1"][1].productId = "p2"
  /\ cartItems["s1"][2] = [productId |-> "p1", productName |-> "Panadol Extra",
                           quantity |-> 2, unitPrice |-> 15000, total |-> 30000]

\* C12: for every cart the cart functions can build, getCartTotal returns
\* subtotal = the sum of quantity x unitPrice over the lines, tax = 16% of the
\* subtotal (exactly, in minor units) and total = subtotal + tax
C12_CartTotals ==
  LET t == getCartTotal(cartItems["s1"])
  IN /\ t.subtotal = SumOfLines(cartItems["s1"])
     /\ t.tax * 100 = TaxRatePercent * SumOfLines(cartItems["s1"])
     /\ t.total = t.subtotal + t.tax

\* a cart of two units of p1 and one of p2: 420.00 + 67.20 = 487.20
C12_Witness ==
  /\ Len(cartItems["s1"]) = 2
  /\ Qty(cartItems["s1"], "p1") = 2
  /\ Qty(cartItems["s1"], "p2") = 1
  /\ log["s1"][1].op = "updateQuantity"
  /\ getCartTotal(cartItems["s1"]) = [subtotal |-> 42000, tax |-> 6720, total |-> 48720]

\* C13: the stock level a checkout writes for a cart line is the level the
\* store holds for that product at the time of the write minus the quantity
\* of the line, whatever other sessions wrote since the snapshot was loaded:
\* a sale of q units lowers the stored level by exactly q
C13_StockWriteFromStoreLevel ==
  [][\A s \in Sessions :
       (pc[s] = "stock" /\ Len(log'[s]) = Len(log[s]) + 1) =>
         LET call == log'[s][Len(log'[s])]
             item == att[s].cart[att[s].i]
         IN (call.op = "stock" /\ call.rows = 1) =>
              stock'[item.productId] = stock[item.productId] - item.quantity]_vars

\* C14: a checkout of an active cashier, pharmacy technician or super admin
\* that reaches Completed has stored its sale, its line items and the stock
\* decrement of every cart line: no stock update the store answered without
\* an error was dropped by the access policy
C14_EveryRoleChecksOutFully ==
  \A s \in Sessions :
    (pc[s] = "refetch" /\ IsActive(user[s])) =>
      /\ \E i \in 1..Len(sales) : sales[i].id = att[s].saleId
      /\ Len(ItemsOfSale(att[s].saleId)) = Len(att[s].cart)
      /\ Len(CallsOf(s, "stock")) = Len(att[s].cart)
      /\ \A i \in 1..Len(CallsOf(s, "stock")) :
           CallsOf(s, "stock")[i].ok => CallsOf(s, "stock")[i].rows = 1

\* C16: a checkout paid in cash starts, and so a sale with payment_method
\* cash is stored, only when the cash received entered is >= the total of
\* the cart at that moment
C16_CashCoversTotal ==
  /\ [](\A s \in Sessions :
          pc[s] \in {"items", "stock", "refetch"} =>
            \E i \in 1..Len(sales) :
              /\ sales[i].id = att[s].saleId
              /\ sales[i].payment_method = att[s].method
              /\ sales[i].total = att[s].total)
  /\ [][\A s \in Sessions :
          attempts'[s] # attempts[s] =>
            /\ att'[s].method = selectedPaymentMethod[s]
            /\ att'[s].total = getCartTotal(cartItems[s]).total
            /\ att'[s].method = "cash" => cashReceived[s] >= att'[s].total]_vars

\* a sale paid in cash is stored: 200.00 received for a total of 174.00
C16_Witness ==
  /\ pc["s1"] = "items"
  /\ att["s1"].method = "cash"
  /\ att["s1"].total = 17400
  /\ cashReceived["s1"] = 20000
  /\ Len(sales) = 1
  /\ sales[1].payment_method = "cash"

\* C17: a checkout that reaches Completed has emptied the cart and set
\* lastSale to the sale id, receipt number, line items, subtotal, tax, total,
\* payment method and staff id that were written to its sale and line-item
\* rows; and an attempt empties the cart or sets lastSale only then, with
\* the sale and its line items stored
C17_ReceiptMatchesStore ==
  /\ [](\A s \in Sessions :
          pc[s] = "refetch" =>
            /\ cartItems[s] = <<>>
            /\ lastSale[s] # NoSale
            /\ lastSale[s].id = att[s].saleId
            /\ \E i \in 1..Len(sales) :
                 /\ sales[i].id = lastSale[s].id
                 /\ sales[i].receipt_number = lastSale[s].receiptNumber
                 /\ sales[i].subtotal = lastSale[s].subtotal
                 /\ sales[i].tax = lastSale[s].tax
                 /\ sales[i].total = lastSale[s].total
                 /\ sales[i].payment_method = lastSale[s].paymentMethod
                 /\ sales[i].staff_id = lastSale[s].staffId
            /\ Len(ItemsOfSale(lastSale[s].id)) = Len(lastSale[s].items)
            /\ \A i \in 1..Len(lastSale[s].items) :
                 LET row == ItemsOfSale(lastSale[s].id)[i]
                     line == lastSale[s].items[i]
                 IN /\ row.product_id = line.productId
                    /\ row.product_name = line.productName
                    /\ row.quantity = line.quantity
                    /\ row.unit_price = line.unitPrice
                    /\ row.total = line.total)
  /\ [][\A s \in Sessions :
          /\ (lastSale'[s] # lastSale[s] /\ lastSale'[s] # NoSale) =>
                /\ pc[s] = "stock" /\ pc'[s] = "refetch"
                /\ cartItems'[s] = <<>>
                /\ Len(ItemsOfSale(lastSale'[s].id)) > 0
          /\ (pc'[s] # pc[s] /\ cartItems'[s] # cartItems[s]) =>
                /\ pc[s] = "stock" /\ pc'[s] = "refetch"
                /\ Len(CallsOf(s, "sale")) = 1 /\ CallsOf(s, "sale")[1].ok
                /\ Len(CallsOf(s, "items")) = 1 /\ CallsOf(s, "items")[1].ok]_vars

\* a checkout of two lines paid by M-Pesa stands at Completed; the operator
\* chose another payment method while it ran
C17_Witness ==
  /\ pc["s1"] = "refetch"
  /\ Len(lastSale["s1"].items) = 2
  /\ lastSale["s1"].paymentMethod = "mpesa"
  /\ selectedPaymentMethod["s1"] = "cash"
  /\ cartItems["s1"] = <<>>

\* C18: a checkout in which the store rejected a write, a stock update
\* included, ends in Failed: no attempt with a rejected stock update stands
\* at Completed with its receipt shown and the cart emptied
C18_RejectedWriteFails ==
  \A s \in Sessions :
    pc[s] = "refetch" =>
      \A i \in 1..Len(log[s]) : log[s][i].ok

\* the products table differs between the two states of a step
ProductsWritten == stock' # stock

\* C15: no products row is inserted, updated or deleted by a write of a
\* principal who is inactive or a cashier: a step that changes the products
\* table is a write of an active super admin or pharmacy technician, and
\* the Inventory screen issues writes only for these two roles
C15_ProductWritesAuthorized ==
  [][\A s \in Sessions :
       LET authorized == /\ user[s] \in Users
                         /\ profiles[user[s]].is_active
                         /\ profiles[user[s]].role \in {"super_admin", "pharmtech"}
       IN /\ (ProductsWritten /\ log'[s] # log[s]) => authorized
          /\ ProductsWritten => \E r \in Sessions : log'[r] # log[r]
          /\ (/\ log'[s] # log[s]
              /\ log'[s][Len(log'[s])].op \in {"update", "insert", "delete"})
               => /\ user[s] \in Users
                  /\ Profiles[user[s]].role \in {"super_admin", "pharmtech"}]_vars

\* the update of a deactivated pharmacy technician and the stock update of
\* the cashier's checkout both came back without an error and wrote no row
C15_Witness ==
  /\ user["s2"] = "techoff"
  /\ log["s2"] = <<Call("update", TRUE, 0, "p1", 0)>>
  /\ pc["s1"] = "refetch"
  /\ \E i \in 1..Len(log["s1"]) :
       log["s1"][i].op = "stock" /\ log["s1"][i].ok /\ log["s1"][i].rows = 0
  /\ stock["p1"] = 1

\* the sum of a field over the rows of a report
RECURSIVE SumSales(_)
SumSales(rows) == IF rows = <<>> THEN 0 ELSE Head(rows).sales + SumSales(Tail(rows))
RECURSIVE SumTransactions(_)
SumTransactions(rows) ==
  IF rows = <<>> THEN 0 ELSE Head(rows).transactions + SumTransactions(Tail(rows))

\* C19: generateDailyReport puts every selected sale in exactly one group,
\* that of its calendar date: the groups' sales add up to the total of the
\* selected sales (getTotalStats().totalSales) and their transaction counts
\* to the number of selected sales
C19_DailyReportPartitions ==
  LET report == generateDailyReport(filteredSales)
      OnDate(date) == SelectSeq(filteredSales, LAMBDA sale : CivilDate(sale.created_at) = date)
  IN /\ SumSales(report) = getTotalStats(filteredSales).totalSales
     /\ SumSales(report) = SumTotals(filteredSales)
     /\ SumTransactions(report) = Len(filteredSales)
     /\ \A k \in 1..Len(filteredSales) :
          Cardinality({i \in 1..Len(report) :
                        report[i].date = CivilDate(filteredSales[k].created_at)}) = 1
     /\ \A i \in 1..Len(report) :
          /\ report[i].transactions = Len(OnDate(report[i].date))
          /\ report[i].sales = SumTotals(OnDate(report[i].date))

\* three sales are selected, two of one day and one of the day before
C19_Witness ==
  /\ Len(filteredSales) = 3
  /\ Len(generateDailyReport(filteredSales)) = 2
  /\ generateDailyReport(filteredSales)[1].transactions = 2
  /\ generateDailyReport(filteredSales)[1].sales = 31320

\* C20: filterSales selects a sale exactly when the calendar date d of its
\* created_at lies in the range, startDate <= d <= endDate in the order of
\* time, whatever the month, weekday and year of the three dates
C20_FilterByCalendarDate ==
  filteredSales = SelectSeq(fetchedSales,
                            LAMBDA sale : /\ dateRange.startDate <= sale.created_at
                                          /\ sale.created_at <= dateRange.endDate)

\* C21: a sale row and a sale_items row, once inserted, are never updated or
\* deleted by checkout, cart, inventory or reporting operations: every step
\* leaves each stored row in place with the same field values
C21_SalesImmutable ==
  [][/\ Len(sales') >= Len(sales)
     /\ \A i \in 1..Len(sales) : sales'[i] = sales[i]
     /\ Len(saleItems') >= Len(saleItems)
     /\ \A i \in 1..Len(saleItems) : saleItems'[i] = saleItems[i]]_vars

\* a sale and its line item are stored, and the Inventory screen has since
\* asked for the deletion of the product sold, which the store refused
C21_Witness ==
  /\ Len(sales) = 1
  /\ Len(saleItems) = 1
  /\ saleItems[1].sale_id = sales[1].id
  /\ log["s2"] = <<Call("delete", FALSE, 0, saleItems[1].product_id, 0)>>
  /\ ProductExists(saleItems[1].product_id)

\* C22: when the sale insert succeeded and the line-items insert is rejected,
\* the attempt stops there: the sale stays in the store with no line item, no
\* stock level is written, no further call (no delete or void of the sale) is
\* issued and the cart is not cleared
C22_ItemsRejectedOrphansSale ==
  /\ [](\A s \in Sessions :
          (\E i \in 1..Len(log[s]) : log[s][i].op = "items" /\ ~log[s][i].ok) =>
            /\ log[s] = <<Call("sale", TRUE, 1, "", 0), Call("items", FALSE, 0, "", 0)>>
            /\ ~InFlight(s)
            /\ outcome[s] = "failed"
            /\ \E i \in 1..Len(sales) : ItemsOfSale(sales[i].id) = <<>>)
  /\ [][\A s \in Sessions :
          (/\ pc[s] = "items"
           /\ pc'[s] # "items"
           /\ ~log'[s][Len(log'[s])].ok)
            => /\ \E i \in 1..Len(sales') :
                    /\ sales'[i].id = att[s].saleId
                    /\ sales'[i].staff_id = user[s]
               /\ SelectSeq(saleItems', LAMBDA r : r.sale_id = att[s].saleId) = <<>>
               /\ pc'[s] = "idle"
               /\ UNCHANGED <<stock, sales, saleItems, cartItems, lastSale,
                              showPayment>>]_vars

\* the line items of a cart of two lines were refused after the sale was
\* stored
C22_Witness ==
  /\ outcome["s1"] = "failed"
  /\ log["s1"] = <<Call("sale", TRUE, 1, "", 0), Call("items", FALSE, 0, "", 0)>>
  /\ Len(sales) = 1
  /\ saleItems = <<>>
  /\ Len(cartItems["s1"]) = 2
  /\ stock["p1"] = MaxStock

\* both counters stand at Completed with a cart of one line of p, and the
\* stock update of each was written
BothSold(p) ==
  \A s \in Sessions :
    /\ pc[s] = "refetch"
    /\ Len(att[s].cart) = 1
    /\ att[s].cart[1].productId = p
    /\ log[s][Len(log[s])].op = "stock"
    /\ log[s][Len(log[s])].product = p
    /\ log[s][Len(log[s])].rows = 1

\* C23: a lost update is reachable: when two counters that fetched the same
\* stock level of a product have both completed a checkout of it, the stored
\* level is greater than that level minus the two quantities sold
C23_LostUpdate ==
  \A p \in Products :
    BothSold(p) =>
      /\ att["s1"].products[p] = att["s2"].products[p]
      /\ stock[p] > att["s1"].products[p]
                      - (att["s1"].cart[1].quantity + att["s2"].cart[1].quantity)

\* two units of p1 in the store, each counter has sold one and the store
\* holds one
C23_Witness ==
  /\ BothSold("p1")
  /\ \A s \in Sessions : att[s].products["p1"] = 2 /\ att[s].cart[1].quantity = 1
  /\ \A s \in Sessions : att[s].stock0["p1"] = 2
  /\ stock["p1"] = 1

\* C24: with every store call returning, every started attempt ends in
\* Completed or Failed, isProcessing is false once it has ended, whichever
\* way it ended, and isProcessing is true only while an attempt is in flight
C24_AttemptEndsAndFlagResets ==
  /\ \A s \in Sessions :
       /\ (outcome[s] = "running") ~> (outcome[s] \in {"completed", "failed"})
       /\ InFlight(s) ~> (~InFlight(s) /\ ~isProcessing[s])
       /\ [](isProcessing[s] => InFlight(s))
       /\ []((~InFlight(s) /\ outcome[s] \in {"completed", "failed"}) => ~isProcessing[s])
  /\ [][\A s \in Sessions :
          (InFlight(s) /\ ~InFlight(s)') =>
             /\ outcome'[s] \in {"completed", "failed"}
             /\ ~isProcessing'[s]]_vars

\* an attempt has ended at the line-items insert and the flag is down
C24_Witness ==
  /\ outcome["s1"] = "failed"
  /\ Len(log["s1"]) = 2
  /\ ~log["s1"][2].ok
  /\ ~InFlight("s1")
  /\ ~isProcessing["s1"]
  /\ outcome["s2"] = "completed"
  /\ ~InFlight("s2")
  /\ ~isProcessing["s2"]

\* C25: no write is sent again by the handler: the calls of one attempt hold
\* at most one sale insert, at most one line-items insert and at most one
\* stock update per cart line, whether these calls succeeded or failed
C25_NoAutomaticRetry ==
  \A s \in Sessions :
    /\ Len(CallsOf(s, "sale")) <= 1
    /\ Len(CallsOf(s, "items")) <= 1
    /\ \A p \in Products :
         Len(SelectSeq(log[s], LAMBDA c : c.op = "stock" /\ c.product = p)) <= 1
    /\ InFlight(s) =>
         /\ Len(CallsOf(s, "stock")) <= Len(att[s].cart)
         /\ \A p \in Products :
              Len(SelectSeq(log[s], LAMBDA c : c.op = "stock" /\ c.product = p))
                <= Len(SelectSeq(att[s].cart, LAMBDA item : item.productId = p))

\* the stock update of the first of two cart lines returned an error; the
\* attempt went on to the second line and completed
C25_Witness ==
  /\ pc["s1"] = "refetch"
  /\ Len(att["s1"].cart) = 2
  /\ Len(log["s1"]) = 4
  /\ log["s1"][3].op = "stock"
  /\ ~log["s1"][3].ok
  /\ log["s1"][4].op = "stock"
  /\ log["s1"][4].product # log["s1"][3].product

\* C26: with the cart driven by the product tiles, the minus / plus buttons
\* (quantity - 1, quantity + 1) and the bin button, every cart line has a
\* quantity >= 1 and total = quantity * unitPrice; so every stored line item
\* has quantity > 0 and total = quantity * unit_price
C26_LinesPositiveAndPriced ==
  /\ \A s \in Sessions : \A i \in 1..Len(cartItems[s]) :
       /\ cartItems[s][i].quantity \in Nat \ {0}
       /\ cartItems[s][i].total = cartItems[s][i].quantity * cartItems[s][i].unitPrice
  /\ \A s \in Sessions : \A i \in 1..Len(att[s].cart) :
       /\ att[s].cart[i].quantity \in Nat \ {0}
       /\ att[s].cart[i].total = att[s].cart[i].quantity * att[s].cart[i].unitPrice
  /\ \A i \in 1..Len(saleItems) :
       /\ saleItems[i].quantity > 0
       /\ saleItems[i].unit_price >= 0
       /\ saleItems[i].total = saleItems[i].quantity * saleItems[i].unit_price

\* a line raised to two units with the plus button was stored, and the cart
\* in which the operator has since lowered that line back to one unit is
\* still on the screen
C26_Witness ==
  /\ pc["s1"] = "stock"
  /\ Len(saleItems) = 2
  /\ \E i \in 1..2 : saleItems[i].quantity = 2 /\ saleItems[i].total = 2 * saleItems[i].unit_price
  /\ \E i \in 1..Len(cartItems["s1"]) :
       /\ cartItems["s1"][i].quantity = 1
       /\ Qty(att["s1"].cart, cartItems["s1"][i].productId) = 2

\* the lines of a cart for one product
LinesOf(cart, p) == SelectSeq(cart, LAMBDA item : item.productId = p)

\* C27: addToCart, updateQuantity and removeFromCart send nothing to the
\* store and leave stock levels, sales and line items as they are;
\* removeFromCart(p) drops the line of p, keeps every other line as it was,
\* and changes nothing when p has no line
C27_CartOpsLeaveStoreAlone ==
  [][\A s \in Sessions :
       /\ (cartItems'[s] # cartItems[s] /\ pc'[s] = pc[s]) =>
            /\ UNCHANGED <<stock, sales, saleItems, products>>
            /\ \A i \in 1..Len(log'[s]) :
                 \/ log'[s][i].op \in {"addToCart", "updateQuantity", "removeFromCart"}
                 \/ (i <= Len(log[s]) /\ log'[s][i] = log[s][i])
       /\ \A p \in Products :
            (/\ log'[s] = <<Call("removeFromCart", TRUE, 0, p, 0)>>
             /\ log'[s] # log[s])
              => /\ UNCHANGED <<stock, sales, saleItems, products>>
                 /\ LinesOf(cartItems'[s], p) = <<>>
                 /\ \A q \in Products \ {p} :
                      LinesOf(cartItems'[s], q) = LinesOf(cartItems[s], q)
                 /\ Len(cartItems'[s]) = Len(cartItems[s]) - Len(LinesOf(cartItems[s], p))
                 /\ ~InCart(cartItems[s], p) => cartItems'[s] = cartItems[s]]_vars

\* removeFromCart("p2") was the last call and the line of two units of p1 is
\* in the cart
C27_Witness ==
  /\ log["s1"] = <<Call("removeFromCart", TRUE, 0, "p2", 0)>>
  /\ Len(cartItems["s1"]) = 1
  /\ cartItems["s1"][1].productId = "p1"
  /\ cartItems["s1"][1].quantity = 2
  /\ sales = <<>>

\* C28: every stored sale has as staff_id the principal of the counter that
\* ran the checkout, and that principal was active when the row was
\* inserted; the store refuses a sale row sent by an inactive principal or
\* with a staff_id other than the sender, and the checkout then aborts
C28_SaleByActivePrincipal ==
  /\ [](/\ \A u \in Users \cup {NoUser}, v \in Users :
             CanInsertSale(u, [staff_id |-> v]) <=> (IsActive(u) /\ v = u)
        /\ \A i \in 1..Len(sales) :
             \E s \in Sessions : attempts[s] >= 1 /\ sales[i].staff_id = user[s])
  /\ [][\A s \in Sessions :
          (pc[s] = "sale" /\ pc'[s] # "sale") =>
             /\ Len(sales') > Len(sales) =>
                  /\ IsActive(user[s])
                  /\ sales'[Len(sales')].staff_id = user[s]
                  /\ att'[s].saleId = sales'[Len(sales')].id
             /\ ~IsActive(user[s]) =>
                  /\ sales' = sales
                  /\ log'[s] = <<Call("sale", FALSE, 0, "", 0)>>
                  /\ outcome'[s] = "failed"
                  /\ pc'[s] = "idle"
                  /\ UNCHANGED <<saleItems, stock, cartItems, lastSale>>]_vars

\* the operator of counter s1 was made inactive from the User Management
\* screen and the sale insert of the counter failed
C28_Witness ==
  /\ ~IsActive(user["s1"])
  /\ log["s2"] = <<Call("toggle", TRUE, 1, user["s1"], 0)>>
  /\ outcome["s1"] = "failed"
  /\ log["s1"] = <<Call("sale", FALSE, 0, "", 0)>>
  /\ sales = <<>>
  /\ Len(cartItems["s1"]) = 1

\* C29: the cart holds at most one line per product: addToCart of a product
\* that has a line raises that line and appends nothing, so the number of
\* lines is the number of distinct products in the cart
C29_OneLinePerProduct ==
  \A s \in Sessions :
    /\ \A p \in Products : Len(LinesOf(cartItems[s], p)) <= 1
    /\ Len(cartItems[s]) =
         Cardinality({cartItems[s][i].productId : i \in 1..Len(cartItems[s])})
    /\ Len(cartItems[s]) <= Cardinality(Products)

\* addToCart was called for a product that already had a line: two lines,
\* the one of p1 at two units
C29_Witness ==
  /\ log["s1"] = <<Call("addToCart", TRUE, 0, "p1", 1)>>
  /\ Len(cartItems["s1"]) = 2
  /\ Qty(cartItems["s1"], "p1") = 2
  /\ Len(LinesOf(cartItems["s1"], "p1")) = 1

\* what the operator sees of a session: cart, payment method, cash received,
\* receipt and payment modal
SessionView(s) ==
  <<cartItems[s], selectedPaymentMethod[s], cashReceived[s], lastSale[s],
    showPayment[s]>>

\* C30: an attempt that fails at the sale insert or at the line-items insert
\* leaves cart, payment method, cash received and last receipt as they were:
\* no step of the handler up to the failure changes them, and Complete Sale
\* can be pressed again; the sale insert of a later attempt appends a new
\* row, also when an earlier attempt left a sale without line items
C30_FailedAttemptKeepsSession ==
  /\ [](\A s \in Sessions :
          (outcome[s] = "failed" /\ ~InFlight(s)) =>
             /\ ~isProcessing[s]
             /\ showPayment[s]
             /\ Len(cartItems[s]) > 0
             /\ CompleteSaleDisabled(s) <=>
                  (/\ selectedPaymentMethod[s] = "cash"
                   /\ cashReceived[s] < getCartTotal(cartItems[s]).total))
  /\ [][\A s \in Sessions :
          /\ (pc[s] \in {"idle", "sale", "items"} /\ pc'[s] # pc[s] /\ pc'[s] # "stock")
               => SessionView(s)' = SessionView(s)
          /\ (pc[s] \in {"sale", "items"} /\ pc'[s] = "idle")
               => /\ outcome'[s] = "failed"
                  /\ (cartItems[s] = att[s].cart => cartItems'[s] = att[s].cart)
                  /\ selectedPaymentMethod'[s] = att[s].method
          /\ (pc[s] = "sale" /\ pc'[s] = "items")
               => /\ Len(sales') = Len(sales) + 1
                  /\ \A i \in 1..Len(sales) :
                       /\ sales'[i] = sales[i]
                       /\ sales'[Len(sales')].id # sales[i].id
                       /\ sales'[Len(sales')].receipt_number # sales[i].receipt_number
                  /\ sales'[Len(sales')].total = getCartTotal(att[s].cart).total
                  /\ att'[s].saleId = sales'[Len(sales')].id]_vars

\* the line items of the first attempt were refused; Complete Sale was
\* pressed again on the same cart and a second sale was stored
C30_Witness ==
  /\ attempts["s2"] = 2
  /\ pc["s2"] = "items"
  /\ cartItems["s2"] = att["s2"].cart
  /\ Len(sales) = 2
  /\ ItemsOfSale(sales[1].id) = <<>>
  /\ sales[1].staff_id = sales[2].staff_id
  /\ sales[1].total = sales[2].total
  /\ sales[1].receipt_number # sales[2].receipt_number
  /\ lastSale["s2"] = NoSale

====
